---- MODULE Spec2Model ----
(***************************************************************************)
(* Model of the event indexer of the Sui NFT marketplace backend:          *)
(* IndexerService (poll loop, classifier, projector), the event source     *)
(* adapter of SuiService and the SQLite store of DatabaseService.          *)
(***************************************************************************)
EXTENDS Integers, Sequences, FiniteSets, TLC

(* ---------------------------- bounds ----------------------------------- *)
MaxLoops == 2      \* poll() invocations that can be alive at once
MaxNow   == 1      \* largest value of the wall clock Date.now()
MaxChain == 3      \* events on the remote log
MaxBatch == 3      \* events of a batch handed to the projector directly
MaxFairChain == 2  \* events on the remote log where liveness is checked
MaxOverPage == 1   \* events of one kind on the remote log beyond one page
MaxTx == 3         \* rows of table transactions when the queries are checked
MaxProjected == 2  \* events of a batch projected onto a filled store
MaxOrderChain == 4 \* events on the remote log where the order of projection is checked
MaxTie == 3        \* events of one timestamp on the remote log

(* ------------------------- program constants --------------------------- *)
limit == 50
NULL == "null"
PACKAGE_ID == "0xpkg"
\* the kinds queried with NFTListed last
EventTypes_listedLast == <<"NFTMinted", "NFTPurchased", "NFTDelisted", "NFTListed">>

EventTypes == <<"NFTMinted", "NFTListed", "NFTPurchased", "NFTDelisted">>

ForeignKeys == TRUE

Loops == 1..MaxLoops
Times == 0..MaxNow

(* ------------------------------ events --------------------------------- *)
\* `${this.packageId}::marketplace::${eventType}`, kept as its segments
MoveEventType(eventType) == <<PACKAGE_ID, "marketplace", eventType>>

Payload(nft_id, creator, name, seller, buyer, price) ==
    [nft_id |-> nft_id, creator |-> creator, name |-> name,
     seller |-> seller, buyer |-> buyer, price |-> price]

SuiEvent(type, txDigest, timestampMs, sender, parsedJson) ==
    [type |-> type, txDigest |-> txDigest, timestampMs |-> timestampMs,
     sender |-> sender, parsedJson |-> parsedJson]

\* what the contract emits: mint_nft, list_nft, buy_nft, delist_nft
MintedX    == SuiEvent(MoveEventType("NFTMinted"), "d1", 1, "A",
                       Payload("X", "A", "Art", NULL, NULL, NULL))
ListedX    == SuiEvent(MoveEventType("NFTListed"), "d2", 2, "A",
                       Payload("X", NULL, NULL, "A", NULL, "100"))
PurchasedX == SuiEvent(MoveEventType("NFTPurchased"), "d3", 3, "B",
                       Payload("X", NULL, NULL, "A", "B", "100"))
DelistedX  == SuiEvent(MoveEventType("NFTDelisted"), "d4", 3, "A",
                       Payload("X", NULL, NULL, "A", NULL, NULL))
RelistedX  == SuiEvent(MoveEventType("NFTListed"), "d5", 4, "A",
                       Payload("X", NULL, NULL, "A", NULL, "200"))
RepurchasedX == SuiEvent(MoveEventType("NFTPurchased"), "d6", 5, "B",
                       Payload("X", NULL, NULL, "A", "B", "200"))
\* an event of another kind, and a second event of the transaction d2
OtherEvent == SuiEvent(<<PACKAGE_ID, "marketplace", "FeeChanged">>, "d7", 2, "A",
                       Payload(NULL, NULL, NULL, NULL, NULL, NULL))
DelistedInD2 == SuiEvent(MoveEventType("NFTDelisted"), "d2", 2, "A",
                       Payload("X", NULL, NULL, "A", NULL, NULL))

\* event logs of the marketplace contract for one NFT, in ledger order
Histories == {<<MintedX, ListedX, PurchasedX>>,
              <<MintedX, ListedX, DelistedX, RelistedX, RepurchasedX>>}
SourceEvents == {MintedX, ListedX, PurchasedX, DelistedX, OtherEvent, DelistedInD2}

\* the n-th list_nft and delist_nft of X
ListedN(n)   == SuiEvent(MoveEventType("NFTListed"), "l" \o ToString(n), 2 * n, "A",
                         Payload("X", NULL, NULL, "A", NULL, "100"))
DelistedN(n) == SuiEvent(MoveEventType("NFTDelisted"), "u" \o ToString(n), 2 * n + 1, "A",
                         Payload("X", NULL, NULL, "A", NULL, NULL))

\* the log after mint_nft and n rounds of list_nft, delist_nft
RECURSIVE Rounds(_)
Rounds(n) == IF n = 0 THEN <<MintedX>>
             ELSE Rounds(n - 1) \o <<ListedN(n), DelistedN(n)>>

\* a log with more events of a kind than queryEvents returns in a page
PagedLog == Rounds(limit + MaxOverPage)

\* the fields of the NFT object on the ledger (mint_nft)
NFTObjectFields(nft_id) == [name |-> "Art", description |-> "Desc", url |-> "ipfs"]

DetailOutcomes == {"fields", "nofields", "error"}

\* the remote logs considered: a history of the contract up to some event
Chains == UNION {{SubSeq(h, 1, n) : n \in {m \in 0..MaxChain : m <= Len(h)}} : h \in Histories}

Batches == UNION {[1..n -> SourceEvents] : n \in 1..MaxBatch}

(* ------------------------------ state ---------------------------------- *)
VARIABLES
    isRunning,      \* IndexerService.isRunning
    loops,          \* the invocations of poll(), each at its await
    nfts,           \* table nfts
    listings,       \* table listings
    transactions,   \* table transactions, in rowid order
    chain,          \* the remote event log
    now,            \* Date.now()
    console,        \* lines the last step printed
    lastBuyer,      \* history: buyer of the last NFTPurchased projected, per id
    indexer_state,  \* table indexer_state: its one row
    api,            \* MarketplaceController: the handler in flight, the last response
    env,            \* process.env as config.ts reads it
    process,        \* the Node process: loading its modules, running, exited
    ledger          \* the objects of the contract: NFTs, the Marketplace table, coins

vars == <<isRunning, loops, nfts, listings, transactions, chain, now, console,
          lastBuyer, indexer_state, api, env, process, ledger>>

Idle == [pc |-> "idle", k |-> 0, events |-> <<>>, i |-> 0]

\* a .env that sets every variable config.ts and SuiService read
FullEnv == [PACKAGE_ID |-> PACKAGE_ID, MARKETPLACE_ID |-> "0xmkt",
            SUI_NETWORK |-> "testnet", SUI_PRIVATE_KEY |-> "suiprivkey"]

\* SuiService.packageId
packageId == env.PACKAGE_ID

\* INSERT OR IGNORE INTO indexer_state ... VALUES (1, '0', '0', ?)
initTables(t) == [last_checkpoint |-> "0", last_event_seq |-> "0", updated_at |-> t]

\* req.body of POST /mint and POST /buy; a field left out is ""
Request(name, description, imageUrl, nftId, coinId) ==
    [name |-> name, description |-> description, imageUrl |-> imageUrl,
     nftId |-> nftId, coinId |-> coinId]
NoRequest == Request(NULL, NULL, NULL, NULL, NULL)
MintRequests == {Request("Art", "Desc", "ipfs", NULL, NULL),
                 Request("Art", "", "ipfs", NULL, NULL)}
BuyRequests == {Request(NULL, NULL, NULL, "X", "coin"),
                Request(NULL, NULL, NULL, "X", "")}

\* res.status(...).json(...) of a handler
Response(op, status) == [op |-> op, status |-> status]
NoResponse == Response(NULL, 0)

\* no handler in flight
ApiIdle == [pc |-> "idle", req |-> NoRequest, result |-> NULL, res |-> NoResponse]

\* suiService.getAddress()
ServiceAddress == "S"

\* signAndExecuteTransaction: the transaction executes, or executes and
\* aborts (the response carries the failed effects), or the call rejects
TxOutcomes == {"success", "failure", "rejected"}

(* --------------------- the marketplace contract ------------------------ *)
\* event.type.split('::').pop()
LastSegment(type) == type[Len(type)]

\* the transaction that extends the log: its digest and its timestamp
NextDigest(log) == "d" \o ToString(Len(log) + 1)
NextTimestamp(log) == Len(log) + 1

Emitted(log, kinds) == {j \in 1..Len(log) : LastSegment(log[j].type) \in kinds}
Latest(S) == CHOOSE j \in S : \A m \in S : m <= j

\* an NFT object of the id exists
Minted(log) == Emitted(log, {"NFTMinted"}) # {}

\* table::contains(&marketplace.listings, nft_id)
ListedOnChain(log) ==
    LET moves == Emitted(log, {"NFTListed", "NFTPurchased", "NFTDelisted"})
    IN  moves # {} /\ LastSegment(log[Latest(moves)].type) = "NFTListed"

\* the Listing of the table
ListingOnChain(log) == log[Latest(Emitted(log, {"NFTListed"}))].parsedJson

mint_nft(log, sender, name) ==
    Append(log, SuiEvent(MoveEventType("NFTMinted"), NextDigest(log), NextTimestamp(log),
                         sender, Payload("X", sender, name, NULL, NULL, NULL)))

list_nft(log, sender, price) ==
    Append(log, SuiEvent(MoveEventType("NFTListed"), NextDigest(log), NextTimestamp(log),
                         sender, Payload("X", NULL, NULL, sender, NULL, price)))

buy_nft(log, sender) ==
    Append(log, SuiEvent(MoveEventType("NFTPurchased"), NextDigest(log), NextTimestamp(log),
                         sender, Payload("X", NULL, NULL, ListingOnChain(log).seller,
                                         sender, ListingOnChain(log).price)))

\* error codes
ENotOwner == 1
EInsufficientPayment == 2
ENotListed == 3
\* the status of a transaction that did not abort
Success == 0

Addresses == {"A", "B"}
ObjectIds == {"X", "Y"}
Prices == {100, 200}
Payments == {50, 100, 200}

\* struct NFT, with the address that holds the object
NFT(id, name, creator, owner, holder) ==
    [id |-> id, name |-> name, creator |-> creator, owner |-> owner, holder |-> holder]
\* struct Listing
Listing(nft_id, price, seller) == [nft_id |-> nft_id, price |-> price, seller |-> seller]

\* init: the shared Marketplace with an empty table; no NFT, no coin moved
Published ==
    [objects |-> <<>>, listings |-> <<>>,
     received |-> [a \in Addresses |-> 0], status |-> Success]

emit(log, kind, sender, payload) ==
    Append(log, SuiEvent(MoveEventType(kind), NextDigest(log), NextTimestamp(log),
                         sender, payload))

\* an aborted transaction leaves every object as it was
abort(code) ==
    /\ ledger' = [ledger EXCEPT !.status = code]
    /\ UNCHANGED chain

\* an owned object is an argument only of its holder's transactions
Holds(sender, id) == id \in DOMAIN ledger.objects /\ ledger.objects[id].holder = sender

\* table::contains, table::add, table::remove
contains(table, k) == k \in DOMAIN table
add(table, k, v) == [x \in DOMAIN table \cup {k} |-> IF x = k THEN v ELSE table[x]]
remove(table, k) == [x \in DOMAIN table \ {k} |-> table[x]]

\* object::new gives the NFT an id no object has
marketplace_mint_nft(sender, id) ==
    /\ id \notin DOMAIN ledger.objects
    /\ ledger' = [ledger EXCEPT !.objects = add(@, id, NFT(id, "Art", sender, sender, sender)),
                                !.status = Success]
    /\ chain' = emit(chain, "NFTMinted", sender, Payload(id, sender, "Art", NULL, NULL, NULL))

marketplace_list_nft(sender, id, price) ==
    /\ Holds(sender, id)
    /\ IF ledger.objects[id].owner # sender
       THEN abort(ENotOwner)
       ELSE /\ ledger' = [ledger EXCEPT !.listings = add(@, id, Listing(id, price, sender)),
                                        !.objects[id].holder = PACKAGE_ID,
                                        !.status = Success]
            /\ chain' = emit(chain, "NFTListed", sender,
                             Payload(id, NULL, NULL, sender, NULL, ToString(price)))

\* buy_nft whose abort on the payment keeps the removal from the table
marketplace_buy_nft_keepsRemoval(sender, nft_id, payment) ==
    IF ~contains(ledger.listings, nft_id)
    THEN abort(ENotListed)
    ELSE LET listing == ledger.listings[nft_id]
         IN  IF payment < listing.price
             THEN /\ ledger' = [ledger EXCEPT !.listings = remove(@, nft_id),
                                              !.status = EInsufficientPayment]
                  /\ UNCHANGED chain
             ELSE /\ ledger' = [ledger EXCEPT !.listings = remove(@, nft_id),
                                              !.received[listing.seller] = @ + payment,
                                              !.status = Success]
                  /\ chain' = emit(chain, "NFTPurchased", sender,
                                   Payload(nft_id, NULL, NULL, listing.seller, sender,
                                           ToString(listing.price)))

marketplace_buy_nft(sender, nft_id, payment) ==
    IF ~contains(ledger.listings, nft_id)
    THEN abort(ENotListed)
    ELSE LET listing == ledger.listings[nft_id]
         IN  IF payment < listing.price
             THEN abort(EInsufficientPayment)
             ELSE /\ ledger' = [ledger EXCEPT !.listings = remove(@, nft_id),
                                              !.received[listing.seller] = @ + payment,
                                              !.status = Success]
                  /\ chain' = emit(chain, "NFTPurchased", sender,
                                   Payload(nft_id, NULL, NULL, listing.seller, sender,
                                           ToString(listing.price)))

marketplace_delist_nft(sender, id) ==
    /\ Holds(sender, id)
    /\ IF ~contains(ledger.listings, id)
       THEN abort(ENotListed)
       ELSE IF ledger.listings[id].seller # sender
            THEN abort(ENotOwner)
            ELSE /\ ledger' = [ledger EXCEPT !.listings = remove(@, id),
                                             !.objects[id].holder = sender,
                                             !.status = Success]
                 /\ chain' = emit(chain, "NFTDelisted", sender,
                                  Payload(id, NULL, NULL, sender, NULL, NULL))

marketplace_update_nft_owner(sender, id, new_owner) ==
    /\ Holds(sender, id)
    /\ IF ledger.objects[id].owner # sender
       THEN abort(ENotOwner)
       ELSE /\ ledger' = [ledger EXCEPT !.objects[id].owner = new_owner, !.status = Success]
            /\ UNCHANGED chain

(* ------------------------- DatabaseService ----------------------------- *)
\* JavaScript a || b on the values used here
Or(a, b) == IF a = NULL \/ a = "" THEN b ELSE a
OrNow(a, t) == IF a = 0 THEN t ELSE a

saveNFT(rows, nft, t) ==
    {r \in rows : r.id # nft.id} \cup
    {[id |-> nft.id, name |-> nft.name, description |-> nft.description,
      image_url |-> nft.image_url, creator |-> nft.creator, owner |-> nft.owner,
      created_at |-> OrNow(nft.created_at, t), updated_at |-> t]}

\* UPDATE nfts SET owner = ?, creator = ?: the new owner written to both columns
updateNFTOwner_creator(rows, nftId, newOwner, t) ==
    {IF r.id = nftId THEN [r EXCEPT !.owner = newOwner, !.creator = newOwner, !.updated_at = t]
     ELSE r : r \in rows}

updateNFTOwner(rows, nftId, newOwner, t) ==
    {IF r.id = nftId THEN [r EXCEPT !.owner = newOwner, !.updated_at = t] ELSE r
        : r \in rows}

\* FOREIGN KEY (nft_id) REFERENCES nfts(id)
saveListingThrows(nftRows, listing) ==
    ForeignKeys /\ ~\E n \in nftRows : n.id = listing.nft_id

\* an upsert that keeps the status of a row it finds
saveListing_keepsStatus(rows, listing, t) ==
    {r \in rows : r.nft_id # listing.nft_id} \cup
    {[nft_id |-> listing.nft_id, seller |-> listing.seller, price |-> listing.price,
      status |-> IF \E r \in rows : r.nft_id = listing.nft_id
                 THEN (CHOOSE r \in rows : r.nft_id = listing.nft_id).status
                 ELSE Or(listing.status, "active"),
      listed_at |-> OrNow(listing.listed_at, t), updated_at |-> t]}

saveListing(rows, listing, t) ==
    {r \in rows : r.nft_id # listing.nft_id} \cup
    {[nft_id |-> listing.nft_id, seller |-> listing.seller, price |-> listing.price,
      status |-> Or(listing.status, "active"),
      listed_at |-> OrNow(listing.listed_at, t), updated_at |-> t]}

\* SELECT * FROM listings WHERE nft_id = ?: the rows found (none or one)
getListing(rows, nftId) == {r \in rows : r.nft_id = nftId}

\* UPDATE listings SET status = ? without its WHERE clause
updateListingStatus_noWhere(rows, nftId, status, t) ==
    {[r EXCEPT !.status = status, !.updated_at = t] : r \in rows}

updateListingStatus(rows, nftId, status, t) ==
    {IF r.nft_id = nftId THEN [r EXCEPT !.status = status, !.updated_at = t] ELSE r
        : r \in rows}

\* INSERT OR REPLACE: the row of the digest is deleted and written anew
saveTransaction_replaces(txs, tx, t) ==
    Append(SelectSeq(txs, LAMBDA r : r.tx_digest # tx.tx_digest),
           [tx_digest |-> tx.tx_digest, event_type |-> tx.event_type,
            nft_id |-> Or(tx.nft_id, NULL),
            from_address |-> Or(tx.from_address, NULL),
            to_address |-> Or(tx.to_address, NULL),
            price |-> Or(tx.price, NULL),
            timestamp |-> OrNow(tx.timestamp, t)])

\* INSERT without OR IGNORE on a column that is not UNIQUE
saveTransaction_noIgnore(txs, tx, t) ==
    Append(txs, [tx_digest |-> tx.tx_digest, event_type |-> tx.event_type,
                 nft_id |-> Or(tx.nft_id, NULL),
                 from_address |-> Or(tx.from_address, NULL),
                 to_address |-> Or(tx.to_address, NULL),
                 price |-> Or(tx.price, NULL),
                 timestamp |-> OrNow(tx.timestamp, t)])

saveTransaction(txs, tx, t) ==
    IF \E j \in 1..Len(txs) : txs[j].tx_digest = tx.tx_digest
    THEN txs
    ELSE Append(txs, [tx_digest |-> tx.tx_digest, event_type |-> tx.event_type,
                      nft_id |-> Or(tx.nft_id, NULL),
                      from_address |-> Or(tx.from_address, NULL),
                      to_address |-> Or(tx.to_address, NULL),
                      price |-> Or(tx.price, NULL),
                      timestamp |-> OrNow(tx.timestamp, t)])

\* the value of a decimal digit, -1 for any other character
Digit(c) ==
    CASE c = "0" -> 0 [] c = "1" -> 1 [] c = "2" -> 2 [] c = "3" -> 3 [] c = "4" -> 4
      [] c = "5" -> 5 [] c = "6" -> 6 [] c = "7" -> 7 [] c = "8" -> 8 [] c = "9" -> 9
      [] OTHER -> -1

\* CAST(text AS INTEGER), parseInt(text): the leading digits of the text, 0
\* if it has none (parseInt gives NaN there, which || and toFixed do not meet
\* on the prices of this model)
RECURSIVE LeadingInteger(_, _, _)
LeadingInteger(text, i, acc) ==
    IF i > Len(text) \/ Digit(SubSeq(text, i, i)) < 0 THEN acc
    ELSE LeadingInteger(text, i + 1, 10 * acc + Digit(SubSeq(text, i, i)))

CastInteger(text) == LeadingInteger(text, 1, 0)

\* SUM(CAST(price AS INTEGER)) over rows: NULL prices are skipped
RECURSIVE SumOfPrices(_)
SumOfPrices(rows) ==
    IF rows = <<>> THEN 0
    ELSE (IF Head(rows).price = NULL THEN 0 ELSE CastInteger(Head(rows).price))
         + SumOfPrices(Tail(rows))

\* the volume summed over the rows of every kind
getStats_allKinds(db) ==
    LET sales == SelectSeq(db.transactions, LAMBDA r : r.event_type = "NFTPurchased")
        priced == SelectSeq(db.transactions, LAMBDA r : r.price # NULL)
    IN  [total_nfts |-> Cardinality(db.nfts),
         active_listings |-> Cardinality({r \in db.listings : r.status = "active"}),
         total_sales |-> Len(sales),
         total_volume |-> IF priced = <<>> THEN 0 ELSE SumOfPrices(priced)]

\* the sum over no priced row is NULL, and NULL || 0 is 0
getStats(db) ==
    LET sales == SelectSeq(db.transactions, LAMBDA r : r.event_type = "NFTPurchased")
        priced == SelectSeq(sales, LAMBDA r : r.price # NULL)
    IN  [total_nfts |-> Cardinality(db.nfts),
         active_listings |-> Cardinality({r \in db.listings : r.status = "active"}),
         total_sales |-> Len(sales),
         total_volume |-> IF priced = <<>> THEN 0 ELSE SumOfPrices(priced)]

\* a row of listings l JOIN nfts n ON l.nft_id = n.id
Joined(l, n) ==
    [nft_id |-> l.nft_id, seller |-> l.seller, price |-> l.price, status |-> l.status,
     listed_at |-> l.listed_at, updated_at |-> l.updated_at,
     name |-> n.name, description |-> n.description, image_url |-> n.image_url,
     creator |-> n.creator]

\* the orders ORDER BY listed_at DESC allows for a set of rows
Descending(rows) ==
    {s \in [1..Cardinality(rows) -> rows] :
        /\ \A a, b \in 1..Cardinality(rows) : a < b => s[a].listed_at >= s[b].listed_at
        /\ \A a, b \in 1..Cardinality(rows) : s[a] = s[b] => a = b}

\* the query without its WHERE l.status = ? clause
getListings_anyStatus(db, status) ==
    Descending({Joined(l, n) : <<l, n>> \in
        {ln \in db.listings \X db.nfts : ln[1].nft_id = ln[2].id}})

getListings(db, status) ==
    Descending({Joined(l, n) : <<l, n>> \in
        {ln \in db.listings \X db.nfts :
            /\ ln[1].nft_id = ln[2].id
            /\ status # "" => ln[1].status = status}})

(* ---------------------------- SuiService ------------------------------- *)
getEvents(log, eventType) ==
    LET all == SelectSeq(log, LAMBDA e : e.type = <<packageId, "marketplace", eventType>>)
    IN  SubSeq(all, 1, IF Len(all) < limit THEN Len(all) ELSE limit)

\* Array.prototype.sort with (a, b) => a.timestampMs - b.timestampMs: stable,
\* so an element is placed after those of a smaller timestamp and after the
\* earlier ones of its own timestamp
Rank(s) ==
    [j \in 1..Len(s) |->
        Cardinality({m \in 1..Len(s) :
            \/ s[m].timestampMs < s[j].timestampMs
            \/ s[m].timestampMs = s[j].timestampMs /\ m < j}) + 1]

Place(s, pos) == [r \in 1..Len(s) |-> s[CHOOSE j \in 1..Len(s) : pos[j] = r]]

\* the four results concatenated in the order of the kinds, without the sort
SortByTimestamp_unsorted(s) == s

SortByTimestamp(s) ==
    CHOOSE sorted \in UNION {{Place(t, pos) : pos \in {Rank(t)}} : t \in {s}} : TRUE

(* --------------------------- IndexerService ---------------------------- *)
DB == [nfts |-> nfts, listings |-> listings, transactions |-> transactions]

Done(db, lines) == [db |-> db, lines |-> lines, threw |-> FALSE]
Threw(db, lines) == [db |-> db, lines |-> lines, threw |-> TRUE]

\* a catch block that logs and rethrows instead of saving the basic info
handleNFTMinted_rethrows(db, event, outcome, t) ==
    LET p == event.parsedJson
        fields == NFTObjectFields(p.nft_id)
    IN  CASE outcome = "fields" ->
                Done([db EXCEPT !.nfts = saveNFT(@,
                        [id |-> p.nft_id, name |-> Or(fields.name, p.name),
                         description |-> Or(fields.description, ""),
                         image_url |-> Or(fields.url, ""),
                         creator |-> p.creator, owner |-> p.creator,
                         created_at |-> event.timestampMs], t)], {})
          [] outcome = "nofields" -> Done(db, {})
          [] OTHER -> Threw(db, {"Error fetching NFT object"})

handleNFTMinted(db, event, outcome, t) ==
    LET p == event.parsedJson
        fields == NFTObjectFields(p.nft_id)
    IN  CASE outcome = "fields" ->
                Done([db EXCEPT !.nfts = saveNFT(@,
                        [id |-> p.nft_id, name |-> Or(fields.name, p.name),
                         description |-> Or(fields.description, ""),
                         image_url |-> Or(fields.url, ""),
                         creator |-> p.creator, owner |-> p.creator,
                         created_at |-> event.timestampMs], t)], {})
          [] outcome = "nofields" -> Done(db, {})
          [] OTHER ->
                Done([db EXCEPT !.nfts = saveNFT(@,
                        [id |-> p.nft_id, name |-> p.name, description |-> "",
                         image_url |-> "", creator |-> p.creator, owner |-> p.creator,
                         created_at |-> event.timestampMs], t)],
                     {"Error fetching NFT object"})

handleNFTListed(db, event, t) ==
    LET p == event.parsedJson
        listing == [nft_id |-> p.nft_id, seller |-> p.seller, price |-> p.price,
                    status |-> "active", listed_at |-> event.timestampMs]
    IN  IF saveListingThrows(db.nfts, listing) THEN Threw(db, {})
        ELSE Done([db EXCEPT !.listings = saveListing(@, listing, t)], {})

\* a projection of the purchase that leaves the owner as it was
handleNFTPurchased_listingOnly(db, event, t) ==
    LET p == event.parsedJson
    IN  Done([db EXCEPT !.listings = updateListingStatus(@, p.nft_id, "sold", t)], {})

handleNFTPurchased(db, event, t) ==
    LET p == event.parsedJson
    IN  Done([db EXCEPT !.listings = updateListingStatus(@, p.nft_id, "sold", t),
                        !.nfts = updateNFTOwner(@, p.nft_id, p.buyer, t)], {})

handleNFTDelisted(db, event, t) ==
    LET p == event.parsedJson
    IN  Done([db EXCEPT !.listings = updateListingStatus(@, p.nft_id, "delisted", t)], {})

processEvent(db, event, outcome, t) ==
    LET eventType == LastSegment(event.type)
        parsedJson == event.parsedJson
        h == CASE eventType = "NFTMinted" -> handleNFTMinted(db, event, outcome, t)
               [] eventType = "NFTListed" -> handleNFTListed(db, event, t)
               [] eventType = "NFTPurchased" -> handleNFTPurchased(db, event, t)
               [] eventType = "NFTDelisted" -> handleNFTDelisted(db, event, t)
               [] OTHER -> Done(db, {"Unknown event type"})
    IN  IF h.threw
        THEN [db |-> h.db, lines |-> h.lines \cup {"Error processing"}]
        ELSE [db |-> [h.db EXCEPT !.transactions = saveTransaction(@,
                        [tx_digest |-> event.txDigest, event_type |-> eventType,
                         nft_id |-> Or(parsedJson.nft_id, NULL),
                         from_address |-> event.sender,
                         to_address |-> Or(parsedJson.buyer, Or(parsedJson.seller, NULL)),
                         price |-> Or(parsedJson.price, NULL),
                         timestamp |-> event.timestampMs], t)],
              lines |-> h.lines]

\* the loop of indexEvents after one event: the next event, or return and sleep
Advance(loop) ==
    IF loop.i < Len(loop.events)
    THEN [loop EXCEPT !.pc = "process", !.i = @ + 1]
    ELSE [pc |-> "sleep", k |-> 0, events |-> <<>>, i |-> 0]

\* poll() entering indexEvents: the first getEvents is awaited
NewCycle == [pc |-> "fetch", k |-> 1, events |-> <<>>, i |-> 0]

FreeSlot == CHOOSE l \in Loops : loops[l].pc = "idle" /\ \A m \in Loops : loops[m].pc = "idle" => l <= m

\* no continuation of processEvent is pending in the microtask queue; a
\* pending one runs before any timer, response or call of start() and stop()
NoMicrotask == \A l \in Loops : loops[l].pc # "process"

(* ------------------------------ actions -------------------------------- *)
\* the modules are loaded with a full configuration and the server listens
Constructed ==
    /\ indexer_state = initTables(0)
    /\ api = ApiIdle
    /\ env = FullEnv
    /\ process = "running"
    /\ ledger = Published

Init ==
    /\ Constructed
    /\ isRunning = FALSE
    /\ loops = [l \in Loops |-> Idle]
    /\ nfts = {}
    /\ listings = {}
    /\ transactions = <<>>
    /\ chain \in Chains
    /\ now = 0
    /\ console = {}
    /\ lastBuyer = [x \in {"X"} |-> NULL]

\* start() without its already-running guard
start_unguarded ==
    /\ \E l \in Loops : loops[l].pc = "idle"
    /\ isRunning' = TRUE
    /\ loops' = [loops EXCEPT ![FreeSlot] = NewCycle]
    /\ console' = {}
    /\ UNCHANGED <<nfts, listings, transactions, chain, now, lastBuyer, indexer_state, api, env, process, ledger>>

start ==
    /\ NoMicrotask
    /\ IF isRunning
       THEN /\ console' = {"Indexer already running"}
            /\ UNCHANGED <<isRunning, loops, nfts, listings, transactions, chain, now, lastBuyer, indexer_state, api, env, process, ledger>>
       ELSE /\ \E l \in Loops : loops[l].pc = "idle"
            /\ isRunning' = TRUE
            /\ loops' = [loops EXCEPT ![FreeSlot] = NewCycle]
            /\ console' = {}
            /\ UNCHANGED <<nfts, listings, transactions, chain, now, lastBuyer, indexer_state, api, env, process, ledger>>

stop ==
    /\ NoMicrotask
    /\ isRunning' = FALSE
    /\ console' = {}
    /\ UNCHANGED <<loops, nfts, listings, transactions, chain, now, lastBuyer, indexer_state, api, env, process, ledger>>

\* getEvents of kind k resolves inside getAllMarketplaceEvents
fetchResolves(l) ==
    /\ loops[l].pc = "fetch"
    /\ NoMicrotask
    /\ LET loop == loops[l]
           allEvents == loop.events \o getEvents(chain, EventTypes[loop.k])
           events == SortByTimestamp(allEvents)
       IN  loops' = [loops EXCEPT ![l] =
                IF loop.k < Len(EventTypes)
                THEN [loop EXCEPT !.k = @ + 1, !.events = allEvents]
                ELSE IF Len(events) = 0
                     THEN [Idle EXCEPT !.pc = "sleep"]
                     ELSE [loop EXCEPT !.pc = "process", !.k = 0, !.events = events, !.i = 1]]
    /\ console' = {}
    /\ UNCHANGED <<isRunning, nfts, listings, transactions, chain, now, lastBuyer, indexer_state, api, env, process, ledger>>

\* the rejection escaping both catch blocks and ending poll()
fetchRejects_uncaught(l) ==
    /\ loops[l].pc = "fetch"
    /\ loops' = [loops EXCEPT ![l] = Idle]
    /\ console' = {"Error indexing events"}
    /\ UNCHANGED <<isRunning, nfts, listings, transactions, chain, now, lastBuyer, indexer_state, api, env, process, ledger>>

\* a cycle that projects the kinds fetched before the rejection
fetchRejects_keepsFetched(l) ==
    /\ loops[l].pc = "fetch"
    /\ NoMicrotask
    /\ loops' = [loops EXCEPT ![l] =
                    IF Len(loops[l].events) = 0
                    THEN [Idle EXCEPT !.pc = "sleep"]
                    ELSE [pc |-> "process", k |-> 0,
                          events |-> SortByTimestamp(loops[l].events), i |-> 1]]
    /\ console' = {"Error indexing events"}
    /\ UNCHANGED <<isRunning, nfts, listings, transactions, chain, now, lastBuyer, indexer_state, api, env, process, ledger>>

\* getEvents rejects: caught by the catch of indexEvents
fetchRejects(l) ==
    /\ loops[l].pc = "fetch"
    /\ NoMicrotask
    /\ loops' = [loops EXCEPT ![l] = [Idle EXCEPT !.pc = "sleep"]]
    /\ console' = {"Error indexing events"}
    /\ UNCHANGED <<isRunning, nfts, listings, transactions, chain, now, lastBuyer, indexer_state, api, env, process, ledger>>

\* processEvent without its catch: the failure reaches the catch of indexEvents
Project_rethrows(l, outcome) ==
    LET loop == loops[l]
        event == loop.events[loop.i]
        r == processEvent(DB, event, outcome, now)
        threw == "Error processing" \in r.lines
    IN  /\ nfts' = r.db.nfts
        /\ listings' = r.db.listings
        /\ transactions' = r.db.transactions
        /\ console' = IF threw THEN {"Error indexing events"} ELSE r.lines
        /\ loops' = [loops EXCEPT ![l] = IF threw THEN [Idle EXCEPT !.pc = "sleep"]
                                         ELSE Advance(loop)]
        /\ lastBuyer' = IF LastSegment(event.type) = "NFTPurchased" /\ ~threw
                        THEN [lastBuyer EXCEPT ![event.parsedJson.nft_id] = event.parsedJson.buyer]
                        ELSE lastBuyer
        /\ UNCHANGED <<isRunning, chain, now, indexer_state, api, env, process, ledger>>

Project(l, outcome) ==
    LET loop == loops[l]
        event == loop.events[loop.i]
        r == processEvent(DB, event, outcome, now)
        threw == "Error processing" \in r.lines
    IN  /\ nfts' = r.db.nfts
        /\ listings' = r.db.listings
        /\ transactions' = r.db.transactions
        /\ console' = r.lines
        /\ loops' = [loops EXCEPT ![l] = Advance(loop)]
        /\ lastBuyer' = IF LastSegment(event.type) = "NFTPurchased" /\ ~threw
                        THEN [lastBuyer EXCEPT ![event.parsedJson.nft_id] = event.parsedJson.buyer]
                        ELSE lastBuyer
        /\ UNCHANGED <<isRunning, chain, now, indexer_state, api, env, process, ledger>>

\* processEvent up to its first await
processNext(l) ==
    /\ loops[l].pc = "process"
    /\ IF LastSegment(loops[l].events[loops[l].i].type) = "NFTMinted"
       THEN /\ loops' = [loops EXCEPT ![l].pc = "detail"]
            /\ console' = {}
            /\ UNCHANGED <<isRunning, nfts, listings, transactions, chain, now, lastBuyer, indexer_state, api, env, process, ledger>>
       ELSE Project(l, "fields")

\* getNFTObject settles inside handleNFTMinted
detailSettles(l) ==
    /\ loops[l].pc = "detail"
    /\ NoMicrotask
    /\ \E outcome \in DetailOutcomes : Project(l, outcome)

\* a loop that does not read isRunning after its sleep
wake_ignoresStop(l) ==
    /\ loops[l].pc = "sleep"
    /\ loops' = [loops EXCEPT ![l] = NewCycle]
    /\ console' = {}
    /\ UNCHANGED <<isRunning, nfts, listings, transactions, chain, now, lastBuyer, indexer_state, api, env, process, ledger>>

\* the sleep of poll() ends and the while condition is read
wake(l) ==
    /\ loops[l].pc = "sleep"
    /\ NoMicrotask
    /\ loops' = [loops EXCEPT ![l] = IF isRunning THEN NewCycle ELSE Idle]
    /\ console' = {}
    /\ UNCHANGED <<isRunning, nfts, listings, transactions, chain, now, lastBuyer, indexer_state, api, env, process, ledger>>

tick ==
    /\ now < MaxNow
    /\ now' = now + 1
    /\ UNCHANGED <<isRunning, loops, nfts, listings, transactions, chain, console, lastBuyer, indexer_state, api, env, process, ledger>>

LoopStep(l) ==
    \/ fetchResolves(l)
    \/ fetchRejects(l)
    \/ processNext(l)
    \/ detailSettles(l)
    \/ wake(l)

Next ==
    \/ start
    \/ stop
    \/ \E l \in Loops : fetchResolves(l)
    \/ \E l \in Loops : fetchRejects(l)
    \/ \E l \in Loops : processNext(l)
    \/ \E l \in Loops : detailSettles(l)
    \/ \E l \in Loops : wake(l)
    \/ tick

Spec == Init /\ [][Next]_vars

\* the response of the event source and of the timer always arrives, and a
\* callback that is ready again and again is run by the event loop
FairInit == Init /\ Len(chain) <= MaxFairChain

FairSpec == FairInit /\ [][Next]_vars /\ \A l \in Loops : SF_vars(LoopStep(l))

\* indexEvents holding a batch the event source returned, on an empty store;
\* the later cycles read a log of at most one event
BatchInit ==
    /\ Constructed
    /\ isRunning = TRUE
    /\ \E b \in Batches :
          loops = [l \in Loops |-> IF l = 1
                      THEN [pc |-> "process", k |-> 0, events |-> b, i |-> 1]
                      ELSE Idle]
    /\ nfts = {}
    /\ listings = {}
    /\ transactions = <<>>
    /\ chain \in {c \in Chains : Len(c) <= 1}
    /\ now = 0
    /\ console = {}
    /\ lastBuyer = [x \in {"X"} |-> NULL]

\* the one poll loop running on, with no call of start() or stop()
BatchNext ==
    \/ \E l \in Loops : fetchResolves(l)
    \/ \E l \in Loops : fetchRejects(l)
    \/ \E l \in Loops : processNext(l)
    \/ \E l \in Loops : detailSettles(l)
    \/ \E l \in Loops : wake(l)
    \/ tick

BatchSpec == BatchInit /\ [][BatchNext]_vars

\* the poll loop entering its first cycle on a log longer than a page
PageInit ==
    /\ Constructed
    /\ isRunning = TRUE
    /\ loops = [l \in Loops |-> IF l = 1 THEN NewCycle ELSE Idle]
    /\ nfts = {}
    /\ listings = {}
    /\ transactions = <<>>
    /\ chain = PagedLog
    /\ now = 0
    /\ console = {}
    /\ lastBuyer = [x \in {"X"} |-> NULL]

\* the loop keeps running, every query of a cycle succeeds again and again,
\* and so does the fetch of the object's fields
PageSpec ==
    /\ PageInit
    /\ [][BatchNext]_vars
    /\ \A l \in Loops : WF_vars(LoopStep(l))
    /\ \A k \in 1..Len(EventTypes) : SF_vars(fetchResolves(1) /\ loops[1].k = k)
    /\ SF_vars(loops[1].pc = "detail" /\ Project(1, "fields"))

(* ----------------------- MarketplaceController -------------------------- *)
\* POST /mint up to its response, or to the await of suiService.mintNFT with
\* the transaction executed by the ledger
mintNFT(req, outcome) ==
    /\ api.pc = "idle"
    /\ NoMicrotask
    /\ IF req.name = "" \/ req.description = "" \/ req.imageUrl = ""
       THEN /\ api' = [api EXCEPT !.res = Response("mint", 400)]
            /\ console' = {}
            /\ UNCHANGED chain
       ELSE CASE outcome = "rejected" ->
                    /\ api' = [api EXCEPT !.res = Response("mint", 500)]
                    /\ console' = {"Error minting NFT"}
                    /\ UNCHANGED chain
              [] outcome = "failure" ->
                    /\ api' = [api EXCEPT !.pc = "mint", !.req = req, !.result = outcome]
                    /\ console' = {}
                    /\ UNCHANGED chain
              [] OTHER ->
                    /\ ~Minted(chain)
                    /\ chain' = mint_nft(chain, ServiceAddress, req.name)
                    /\ api' = [api EXCEPT !.pc = "mint", !.req = req, !.result = outcome]
                    /\ console' = {}
    /\ UNCHANGED <<isRunning, loops, nfts, listings, transactions, now, lastBuyer,
                   indexer_state, env, process, ledger>>

\* suiService.mintNFT resolves: the created NFT object is looked up and saved
mintNFTResolves ==
    /\ api.pc = "mint"
    /\ NoMicrotask
    /\ IF api.result = "success"
       THEN /\ nfts' = saveNFT(nfts, [id |-> "X", name |-> api.req.name,
                                      description |-> api.req.description,
                                      image_url |-> api.req.imageUrl,
                                      creator |-> ServiceAddress, owner |-> ServiceAddress,
                                      created_at |-> now], now)
            /\ api' = [ApiIdle EXCEPT !.res = Response("mint", 200)]
            /\ console' = {}
       ELSE /\ api' = [ApiIdle EXCEPT !.res = Response("mint", 500)]
            /\ console' = {"Error minting NFT"}
            /\ UNCHANGED nfts
    /\ UNCHANGED <<isRunning, loops, listings, transactions, chain, now, lastBuyer,
                   indexer_state, env, process, ledger>>

\* POST /buy up to its response, or to the await of suiService.buyNFT with
\* the transaction executed by the ledger
buyNFT(req, outcome) ==
    /\ api.pc = "idle"
    /\ NoMicrotask
    /\ LET found == getListing(listings, req.nftId)
       IN  IF req.nftId = "" \/ req.coinId = ""
           THEN /\ api' = [api EXCEPT !.res = Response("buy", 400)]
                /\ console' = {}
                /\ UNCHANGED chain
           ELSE IF found = {}
           THEN /\ api' = [api EXCEPT !.res = Response("buy", 404)]
                /\ console' = {}
                /\ UNCHANGED chain
           ELSE IF \E listing \in found : listing.status # "active"
           THEN /\ api' = [api EXCEPT !.res = Response("buy", 400)]
                /\ console' = {}
                /\ UNCHANGED chain
           ELSE CASE outcome = "rejected" ->
                        /\ api' = [api EXCEPT !.res = Response("buy", 500)]
                        /\ console' = {"Error buying NFT"}
                        /\ UNCHANGED chain
                  [] outcome = "failure" ->
                        /\ api' = [api EXCEPT !.pc = "buy", !.req = req, !.result = outcome]
                        /\ console' = {}
                        /\ UNCHANGED chain
                  [] OTHER ->
                        /\ ListedOnChain(chain)
                        /\ chain' = buy_nft(chain, ServiceAddress)
                        /\ api' = [api EXCEPT !.pc = "buy", !.req = req, !.result = outcome]
                        /\ console' = {}
    /\ UNCHANGED <<isRunning, loops, nfts, listings, transactions, now, lastBuyer,
                   indexer_state, env, process, ledger>>

\* suiService.buyNFT resolves: the optimistic copy is written
buyNFTResolves ==
    /\ api.pc = "buy"
    /\ NoMicrotask
    /\ listings' = updateListingStatus(listings, api.req.nftId, "sold", now)
    /\ nfts' = updateNFTOwner(nfts, api.req.nftId, ServiceAddress, now)
    /\ api' = [ApiIdle EXCEPT !.res = Response("buy", 200)]
    /\ console' = {}
    /\ UNCHANGED <<isRunning, loops, transactions, chain, now, lastBuyer,
                   indexer_state, env, process, ledger>>

\* another client of the contract: the owner of the NFT lists it
listByOwner ==
    /\ Minted(chain)
    /\ Emitted(chain, {"NFTListed"}) = {}
    /\ chain' = list_nft(chain, chain[Latest(Emitted(chain, {"NFTMinted"}))].parsedJson.creator,
                         "100")
    /\ UNCHANGED <<isRunning, loops, nfts, listings, transactions, now, console,
                   lastBuyer, indexer_state, api, env, process, ledger>>

\* another client of the contract: account B buys the listed NFT
buyByOther ==
    /\ ListedOnChain(chain)
    /\ chain' = buy_nft(chain, "B")
    /\ UNCHANGED <<isRunning, loops, nfts, listings, transactions, now, console,
                   lastBuyer, indexer_state, api, env, process, ledger>>

\* the server with its poll loop in the first cycle, on an empty store; the
\* log is empty, or A has minted and listed X
ApiInit ==
    /\ Constructed
    /\ isRunning = TRUE
    /\ loops = [l \in Loops |-> IF l = 1 THEN NewCycle ELSE Idle]
    /\ nfts = {}
    /\ listings = {}
    /\ transactions = <<>>
    /\ chain \in {<<>>, <<MintedX, ListedX>>}
    /\ now = 0
    /\ console = {}
    /\ lastBuyer = [x \in {"X"} |-> NULL]

ApiNext ==
    \/ \E l \in Loops : fetchResolves(l)
    \/ \E l \in Loops : fetchRejects(l)
    \/ \E l \in Loops : processNext(l)
    \/ \E l \in Loops : detailSettles(l)
    \/ \E l \in Loops : wake(l)
    \/ tick
    \/ \E req \in MintRequests, outcome \in TxOutcomes : mintNFT(req, outcome)
    \/ mintNFTResolves
    \/ \E req \in BuyRequests, outcome \in TxOutcomes : buyNFT(req, outcome)
    \/ buyNFTResolves
    \/ listByOwner
    \/ buyByOther

ApiSpec == ApiInit /\ [][ApiNext]_vars

\* (n / 1_000_000_000).toFixed(4): n in units of 0.0001 SUI, rounded to the
\* nearest; at a tie the double nearest to the quotient decides
Rounded(n) ==
    IF n % 100000 < 50000 THEN {n \div 100000}
    ELSE IF n % 100000 > 50000 THEN {n \div 100000 + 1}
    ELSE {n \div 100000, n \div 100000 + 1}

Fixed4(units) ==
    ToString(units \div 10000) \o "." \o
    (IF units % 10000 < 10 THEN "000" ELSE IF units % 10000 < 100 THEN "00"
     ELSE IF units % 10000 < 1000 THEN "0" ELSE "") \o ToString(units % 10000)

toFixed(n) == {Fixed4(units) : units \in Rounded(n)}

\* listings.map(listing => ({...listing, price_sui})): the arrays it can give
Formatted(rows) ==
    {[j \in 1..Len(rows) |-> [price_sui |-> f[j]] @@ rows[j]] :
        f \in {g \in [1..Len(rows) ->
                       UNION {toFixed(CastInteger(rows[j].price)) : j \in 1..Len(rows)}] :
                  \A j \in 1..Len(rows) : g[j] \in toFixed(CastInteger(rows[j].price))}}

\* req.query.status of GET /listings; left out is ""
StatusQueries == {"", "active", "sold"}

\* GET /listings
getListingsRequest(query) ==
    /\ api.pc = "idle"
    /\ NoMicrotask
    /\ \E rows \in getListings(DB, Or(query, "active")) :
          \E formattedListings \in Formatted(rows) :
             api' = [api EXCEPT !.res = [op |-> "listings", status |-> 200,
                                         count |-> Len(formattedListings),
                                         data |-> formattedListings]]
    /\ console' = {}
    /\ UNCHANGED <<isRunning, loops, nfts, listings, transactions, chain, now, lastBuyer,
                   indexer_state, env, process, ledger>>

\* GET /stats
getStatsRequest ==
    /\ api.pc = "idle"
    /\ NoMicrotask
    /\ \E total_volume_sui \in toFixed(getStats(DB).total_volume) :
          api' = [api EXCEPT !.res = [op |-> "stats", status |-> 200,
                     data |-> [total_volume_sui |-> total_volume_sui] @@ getStats(DB)]]
    /\ console' = {}
    /\ UNCHANGED <<isRunning, loops, nfts, listings, transactions, chain, now, lastBuyer,
                   indexer_state, env, process, ledger>>

\* rows as saveNFT, saveListing and saveTransaction leave them
NftRow(id) ==
    [id |-> id, name |-> "Art", description |-> "Desc", image_url |-> "ipfs",
     creator |-> "A", owner |-> "A", created_at |-> 1, updated_at |-> 0]
ListingRow(id, status, listed_at) ==
    [nft_id |-> id, seller |-> "A", price |-> "100", status |-> status,
     listed_at |-> listed_at, updated_at |-> 0]
TxRow(n, kind, price) ==
    [tx_digest |-> "d" \o ToString(n), event_type |-> kind, nft_id |-> "X",
     from_address |-> "B", to_address |-> "B", price |-> price, timestamp |-> n]

Ids == {"X", "Y", "Z"}
\* per id: no row, an Entity only, or an Entity with its Listing
RowChoices == {<<"none">>, <<"nft">>} \cup
              {<<"listing", status, t>> : status \in {"active", "sold"}, t \in {1, 2}}
TxChoices == {<<"NFTPurchased", "100">>, <<"NFTPurchased", "200">>,
              <<"NFTPurchased", "300">>, <<"NFTListed", "100">>}

\* the server on a store that earlier runs have filled, the indexer not started
QueryInit ==
    /\ Constructed
    /\ isRunning = FALSE
    /\ loops = [l \in Loops |-> Idle]
    /\ \E n \in 0..MaxTx : \E c \in [1..n -> TxChoices] :
          transactions = [j \in 1..n |-> TxRow(j, c[j][1], c[j][2])]
    /\ \E c \in [Ids -> RowChoices] :
          /\ nfts = {NftRow(id) : id \in {i \in Ids : c[i][1] # "none"}}
          /\ listings = {ListingRow(id, c[id][2], c[id][3]) :
                            id \in {i \in Ids : c[i][1] = "listing"}}
    /\ chain = <<>>
    /\ now = 0
    /\ console = {}
    /\ lastBuyer = [x \in {"X"} |-> NULL]

QueryNext ==
    \/ \E query \in StatusQueries : getListingsRequest(query)
    \/ getStatsRequest

QuerySpec == QueryInit /\ [][QueryNext]_vars

(* ------------------------------ claims --------------------------------- *)
Alive(l) == loops[l].pc # "idle"
InCycle(l) == loops[l].pc \in {"fetch", "process", "detail"}

\* C1: under any interleaving of start() and stop(), at most one poll loop is
\* alive and at most one fetch-and-process cycle is in progress.
C1_SingleWorker ==
    /\ Cardinality({l \in Loops : Alive(l)}) <= 1
    /\ Cardinality({l \in Loops : InCycle(l)}) <= 1

\* C2: start() while the indexer is running starts no poll loop, triggers no
\* fetch, writes nothing, and leaves isRunning true.
C2_StartIsIdempotent ==
    [][(isRunning /\ start) =>
          /\ isRunning'
          /\ loops' = loops
          /\ <<nfts, listings, transactions>>' = <<nfts, listings, transactions>>]_vars

C2_Witness ==
    /\ isRunning
    /\ console = {"Indexer already running"}
    /\ \E l \in Loops : InCycle(l)

ErrorLines == {"Error indexing events", "Error processing", "Error fetching NFT object"}

\* C3: once stop() has been called and start() is not called again, the batch
\* in progress is projected to its last event, no new cycle begins, and every
\* poll loop eventually terminates.
C3_StopDrains ==
    /\ [][(isRunning /\ ~isRunning') => loops' = loops]_vars
    /\ [][(~isRunning /\ ~isRunning') =>
            \A l \in Loops : loops'[l].pc = "fetch" => loops[l].pc = "fetch"]_vars
    /\ [][\A l \in Loops :
            (loops[l].pc \in {"process", "detail"} /\ loops'[l].pc \notin {"process", "detail"})
                => (loops[l].i = Len(loops[l].events) /\ loops'[l].pc = "sleep")]_vars
    /\ \A l \in Loops : InCycle(l) ~> (loops[l].pc = "sleep")
    /\ (~isRunning) ~> (isRunning \/ \A l \in Loops : ~Alive(l))

C3_Witness ==
    /\ ~isRunning
    /\ \E l \in Loops : loops[l].pc = "process" /\ loops[l].i >= 2

\* C4: a cycle that raises an error does not end the loop: the loop sleeps
\* and, while the indexer is running, begins another cycle.
C4_ErrorsDoNotEndLoop ==
    /\ [][\A l \in Loops :
            (loops'[l] # loops[l] /\ console' \cap ErrorLines # {}) =>
                /\ Alive(l)'
                /\ loops[l].pc = "fetch" => loops'[l].pc = "sleep"]_vars
    /\ \A l \in Loops : InCycle(l) ~> (loops[l].pc = "sleep")
    /\ \A l \in Loops :
            (loops[l].pc = "sleep" /\ isRunning) ~> (loops[l].pc = "fetch" \/ ~isRunning)

C4_Witness ==
    /\ isRunning
    /\ console = {"Error indexing events"}
    /\ \E l \in Loops : loops[l].pc = "sleep"

Digests(txs) == {txs[j].tx_digest : j \in 1..Len(txs)}
KnownKinds == {EventTypes[j] : j \in 1..Len(EventTypes)}

\* loop l finishes processEvent of its current event in this step
Projected(l) ==
    /\ loops[l].pc \in {"process", "detail"}
    /\ loops'[l].pc = "sleep" \/ loops'[l].i = loops[l].i + 1
Current(l) == loops[l].events[loops[l].i]

PurchasedSeen ==
    {e \in SourceEvents \cup {chain[j] : j \in 1..Len(chain)} :
        LastSegment(e.type) = "NFTPurchased"}
Once(e, t1) == processEvent(DB, e, "fields", t1).db
Twice(e, t1, t2) == processEvent(Once(e, t1), e, "fields", t2).db
WithoutUpdatedAt(db) ==
    [nfts |-> {[r EXCEPT !.updated_at = 0] : r \in db.nfts},
     listings |-> {[r EXCEPT !.updated_at = 0] : r \in db.listings},
     transactions |-> db.transactions]

\* C6 as stated: applying a Purchased event twice leaves the same Entity,
\* Listing and Transaction state as applying it once.
C6_PurchaseIdempotent ==
    \A e \in PurchasedSeen : \A t1 \in Times : \A t2 \in t1..MaxNow :
        Twice(e, t1, t2) = Once(e, t1)

\* C6 amended: applying a Purchased event twice leaves the same Entity,
\* Listing and Transaction state as applying it once, except for the
\* updated_at column of the rows of its id.
C6_PurchaseIdempotentButUpdatedAt ==
    \A e \in PurchasedSeen : \A t1 \in Times : \A t2 \in t1..MaxNow :
        /\ WithoutUpdatedAt(Twice(e, t1, t2)) = WithoutUpdatedAt(Once(e, t1))
        /\ \A r \in Twice(e, t1, t2).nfts :
              r.id # e.parsedJson.nft_id => r \in Once(e, t1).nfts
        /\ \A r \in Twice(e, t1, t2).listings :
              r.nft_id # e.parsedJson.nft_id => r \in Once(e, t1).listings

\* a Purchased event has been applied to its Listing and Entity rows at an
\* earlier time than the present one, at which it is applied again
C6_Witness ==
    \E e \in PurchasedSeen :
        /\ e.txDigest \in Digests(transactions)
        /\ lastBuyer[e.parsedJson.nft_id] = e.parsedJson.buyer
        /\ \E r \in listings : /\ r.nft_id = e.parsedJson.nft_id
                                /\ r.status = "sold"
                                /\ r.updated_at < now
        /\ \E r \in nfts : /\ r.id = e.parsedJson.nft_id
                            /\ r.owner = e.parsedJson.buyer
                            /\ r.updated_at < now

\* C7: the owner of every Entity is the buyer of the most recent Purchased
\* event processed for its id, or its creator if there was none.
C7_OwnerIsLastBuyer ==
    \A r \in nfts :
        r.owner = IF lastBuyer[r.id] # NULL THEN lastBuyer[r.id] ELSE r.creator

\* C8: processing an event of an unrecognized kind changes no Entity or
\* Listing row, appends no Transaction record and raises no error.
C8_UnknownKindChangesNothing ==
    [][\A l \in Loops :
          (Projected(l) /\ LastSegment(Current(l).type) \notin KnownKinds) =>
              /\ nfts' = nfts
              /\ listings' = listings
              /\ transactions' = transactions
              /\ console' \cap ErrorLines = {}]_vars

\* C9: after a Minted event is processed an Entity row of its id exists with
\* owner = creator, whatever the outcome of the entity-detail fetch.
C9_MintNeverDropped ==
    [][\A l \in Loops :
          (Projected(l) /\ LastSegment(Current(l).type) = "NFTMinted") =>
              \E r \in nfts' : /\ r.id = Current(l).parsedJson.nft_id
                               /\ r.owner = Current(l).parsedJson.creator]_vars

\* C10: when the entity-detail fetch of a Minted event raises an error, the
\* error is not propagated, the Entity row of the id has the event's name,
\* empty description and image, creator and owner the event's creator, and
\* the event's Transaction record is in the table.
C10_DetailFailureFallback ==
    [][\A l \in Loops :
          (Projected(l) /\ "Error fetching NFT object" \in console') =>
              LET p == Current(l).parsedJson
                  rows == {r \in nfts' : r.id = p.nft_id}
              IN  /\ "Error processing" \notin console'
                  /\ Cardinality(rows) = 1
                  /\ \A r \in rows :
                        /\ r.name = p.name
                        /\ r.description = ""
                        /\ r.image_url = ""
                        /\ r.creator = p.creator
                        /\ r.owner = p.creator
                  /\ Current(l).txDigest \in Digests(transactions')]_vars

C10_Witness ==
    /\ console = {"Error fetching NFT object"}
    /\ \E r \in nfts : r.name = "Art" /\ r.description = "" /\ r.image_url = ""
                         /\ r.owner = r.creator
    /\ Len(transactions) = 1

OwnerIs(rows, id, owner) == \E r \in rows : r.id = id /\ r.owner = owner
StatusIs(rows, id, status) == \E r \in rows : r.nft_id = id /\ r.status = status

\* C11: on an empty store, the batch Minted(X), Listed(X, 100), Purchased(X, B)
\* processed in that order ends with Entity(X).owner = B and
\* Listing(X).status = sold.
C11_MintListPurchase ==
    [][\A l \in Loops :
          (/\ Projected(l)
           /\ loops[l].events = <<MintedX, ListedX, PurchasedX>>
           /\ loops[l].i = 3
           /\ PurchasedX.txDigest \notin Digests(transactions))
          => /\ OwnerIs(nfts', "X", "B")
             /\ StatusIs(listings', "X", "sold")]_vars

\* C12: on an empty store, in the batch Minted(X), Purchased(X, B), Listed(X)
\* the Purchased event leaves the listing table as it was and sets
\* Entity(X).owner = B, and the owner is still B after Listed is processed.
C12_PurchaseBeforeList ==
    [][\A l \in Loops :
          (/\ Projected(l)
           /\ loops[l].events = <<MintedX, PurchasedX, ListedX>>
           /\ ListedX.txDigest \notin Digests(transactions))
          => /\ loops[l].i = 2 => (listings' = listings /\ OwnerIs(nfts', "X", "B"))
             /\ loops[l].i = 3 => OwnerIs(nfts', "X", "B")]_vars

\* loop l returns from indexEvents in this step, every event of its batch
\* having been processed without an error
BatchSucceeded(l) ==
    /\ Projected(l)
    /\ loops'[l].pc = "sleep"
    /\ console' \cap ErrorLines = {}
    /\ \A j \in 1..Len(loops[l].events) :
          loops[l].events[j].txDigest \in Digests(transactions')

\* C13: when a cycle has fetched and processed a batch successfully, the
\* indexer_state row has been written: it is no longer the row initTables
\* inserted, and its updated_at is the time of the write.
C13_CursorWritten ==
    [][\A l \in Loops :
          BatchSucceeded(l) =>
              /\ indexer_state' # initTables(0)
              /\ indexer_state'.updated_at = now]_vars

\* C14: under fairness, every event of a recognized kind on the remote log
\* eventually has a Transaction record of its transaction identifier, also on
\* a log with more events of one kind than a page of 50.
C14_LogEventuallyProjected ==
    <>(\A j \in 1..Len(chain) :
          LastSegment(chain[j].type) \in KnownKinds
              => chain[j].txDigest \in Digests(transactions))

MintEvents == {chain[j] : j \in Emitted(chain, {"NFTMinted"})}
PurchaseEvents == {chain[j] : j \in Emitted(chain, {"NFTPurchased"})}

\* the mint handler has answered for the mint the ledger executed, and the
\* indexer has finished processEvent of its NFTMinted event
ApiMintDone ==
    /\ \E e \in MintEvents : e.parsedJson.creator = ServiceAddress
    /\ api.pc # "mint"
IndexerMintDone == \E e \in MintEvents : e.txDigest \in Digests(transactions)

\* C15: for one mint through POST /mint, once the handler and the indexer's
\* projection of the NFTMinted event have both written, the Entity row has
\* the name, description, image, creator and owner of the mint, whichever
\* of the two wrote last.
C15_MintRaceStable ==
    (ApiMintDone /\ IndexerMintDone /\ PurchaseEvents = {}) =>
        \A r \in nfts :
            r.id = "X" =>
                <<r.name, r.description, r.image_url, r.creator, r.owner>>
                    = <<NFTObjectFields("X").name, NFTObjectFields("X").description,
                        NFTObjectFields("X").url, ServiceAddress, ServiceAddress>>

\* the buy handler has answered for the purchase the ledger executed, and
\* the indexer has finished processEvent of its NFTPurchased event
ApiBuyDone ==
    /\ \E e \in PurchaseEvents : e.parsedJson.buyer = ServiceAddress
    /\ ~(api.pc = "buy" /\ api.result = "success")
IndexerBuyDone ==
    \E e \in PurchaseEvents : /\ e.parsedJson.buyer = ServiceAddress
                              /\ e.txDigest \in Digests(transactions)

C19_FailedBuyWritesNothing ==
    [][/\ (api.pc = "idle" /\ api'.pc = "idle" /\ api' # api /\ api'.res.op = "buy")
            => (UNCHANGED <<nfts, listings, transactions, chain>>
                /\ api'.res.status \in {400, 404, 500})
       /\ (api.pc = "buy" /\ api'.pc = "idle" /\ api.result # "success")
            => UNCHANGED <<nfts, listings, transactions>>
       /\ (api.pc = "buy" /\ api'.pc = "idle" /\ api.result = "success")
            => (StatusIs(listings', "X", "sold") /\ OwnerIs(nfts', "X", ServiceAddress))]_vars

PurchasedRows == {j \in 1..Len(transactions) : transactions[j].event_type = "NFTPurchased"}
PriceValue(price) == CASE price = "100" -> 100 [] price = "200" -> 200 [] price = "300" -> 300
RECURSIVE Total(_)
Total(S) == IF S = {} THEN 0
            ELSE LET j == CHOOSE m \in S : TRUE
                 IN  PriceValue(transactions[j].price) + Total(S \ {j})

\* C17: GET /stats reports total_sales = the number of Transaction rows of
\* kind NFTPurchased, total_volume = the sum of their prices (0 for none),
\* total_nfts = the number of Entity rows and active_listings = the number of
\* active Listings; purchases priced "100", "200", "300" give 3 and 600.
C17_Stats ==
    [][getStatsRequest =>
          LET data == api'.res.data
          IN  /\ data.total_sales = Cardinality(PurchasedRows)
              /\ data.total_volume = Total(PurchasedRows)
              /\ data.total_nfts = Cardinality(nfts)
              /\ data.active_listings = Cardinality({r \in listings : r.status = "active"})
              /\ ( /\ Cardinality(PurchasedRows) = 3
                   /\ {transactions[j].price : j \in PurchasedRows} = {"100", "200", "300"} )
                 => (data.total_sales = 3 /\ data.total_volume = 600)]_vars

C17_Witness ==
    /\ api.res.op = "stats"
    /\ {transactions[j].price : j \in PurchasedRows} = {"100", "200", "300"}
    /\ api.res.data.total_sales = 3
    /\ api.res.data.total_volume = 600
    /\ api.res.data.total_nfts = 3
    /\ api.res.data.active_listings = 2

ActiveIds == {r.nft_id : r \in {x \in listings : x.status = "active"}}

\* C20: GET /listings with no status or with status active returns the
\* active Listing rows, each once, and no other row, by listed_at descending.
C20_ActiveListings ==
    [][\A query \in {"", "active"} :
          getListingsRequest(query) =>
              LET data == api'.res.data
              IN  /\ Len(data) = Cardinality(ActiveIds)
                  /\ {data[j].nft_id : j \in 1..Len(data)} = ActiveIds
                  /\ \A j \in 1..Len(data) :
                        \E r \in listings :
                            /\ r.status = "active"
                            /\ <<r.nft_id, r.seller, r.price, r.status, r.listed_at>>
                                 = <<data[j].nft_id, data[j].seller, data[j].price,
                                     data[j].status, data[j].listed_at>>
                  /\ \A a, b \in 1..Len(data) :
                        a < b => data[a].listed_at >= data[b].listed_at]_vars

\* two active Listings returned, the later one first, a sold one left out
C20_Witness ==
    /\ api.res.op = "listings"
    /\ Len(api.res.data) = 2
    /\ api.res.data[1].listed_at > api.res.data[2].listed_at
    /\ \A j \in 1..2 : api.res.data[j].status = "active"
    /\ \E r \in listings : r.status = "sold"

(* ------------------------------ startup --------------------------------- *)
\* process.env: each variable of the configuration is set or missing ("")
Environments ==
    [PACKAGE_ID : {"", FullEnv.PACKAGE_ID}, MARKETPLACE_ID : {"", FullEnv.MARKETPLACE_ID},
     SUI_NETWORK : {"", FullEnv.SUI_NETWORK}, SUI_PRIVATE_KEY : {"", FullEnv.SUI_PRIVATE_KEY}]

\* config: SUI_NETWORK falls back to testnet, the others to ''
SUI_NETWORK == IF env.SUI_NETWORK = "" THEN "testnet" ELSE env.SUI_NETWORK
SUI_PRIVATE_KEY == env.SUI_PRIVATE_KEY

\* index.ts is loaded: the constructors of the exported singletons run, and
\* only SuiService's throws, when SUI_PRIVATE_KEY is empty; then app.listen
load ==
    /\ process = "loading"
    /\ process' = IF SUI_PRIVATE_KEY = "" THEN "exited" ELSE "listening"
    /\ UNCHANGED <<isRunning, loops, nfts, listings, transactions, chain, now, console, lastBuyer, indexer_state, api, env, ledger>>

\* the callback of app.listen calls indexer.start() on the fresh indexer
listening ==
    /\ process = "listening"
    /\ ~isRunning
    /\ isRunning' = TRUE
    /\ loops' = [loops EXCEPT ![FreeSlot] = NewCycle]
    /\ console' = {}
    /\ process' = "running"
    /\ UNCHANGED <<nfts, listings, transactions, chain, now, lastBuyer, indexer_state, api, env, ledger>>

\* SIGINT and SIGTERM: indexer.stop() and process.exit(0)
shutdown ==
    /\ process = "running"
    /\ NoMicrotask
    /\ isRunning' = FALSE
    /\ console' = {}
    /\ process' = "exited"
    /\ UNCHANGED <<loops, nfts, listings, transactions, chain, now, lastBuyer, indexer_state, api, env, ledger>>

BootInit ==
    /\ indexer_state = initTables(0)
    /\ api = ApiIdle
    /\ env \in Environments
    /\ process = "loading"
    /\ ledger = Published
    /\ isRunning = FALSE
    /\ loops = [l \in Loops |-> Idle]
    /\ nfts = {}
    /\ listings = {}
    /\ transactions = <<>>
    /\ chain \in Chains
    /\ now = 0
    /\ console = {}
    /\ lastBuyer = [x \in {"X"} |-> NULL]

BootNext ==
    \/ load
    \/ listening
    \/ shutdown
    \/ process = "running" /\ \E l \in Loops : fetchResolves(l)
    \/ process = "running" /\ \E l \in Loops : fetchRejects(l)
    \/ process = "running" /\ \E l \in Loops : processNext(l)
    \/ process = "running" /\ \E l \in Loops : detailSettles(l)
    \/ process = "running" /\ \E l \in Loops : wake(l)
    \/ process = "running" /\ tick

BootSpec == BootInit /\ [][BootNext]_vars

RequiredMissing == env.SUI_NETWORK = "" \/ env.PACKAGE_ID = "" \/ env.MARKETPLACE_ID = ""

\* C18: when the network, the package identifier or the marketplace
\* identifier is missing from the configuration, startup fails before the
\* poll loop starts: no fetch-and-process cycle ever runs.
C18_FailFast ==
    RequiredMissing => /\ process # "running"
                       /\ \A l \in Loops : ~InCycle(l)

(* ----------------------- the contract's clients ------------------------ *)
OffLedger == <<isRunning, loops, nfts, listings, transactions, now, console, lastBuyer,
               indexer_state, api, env, process>>

\* the published package, before any transaction
ContractInit ==
    /\ Constructed
    /\ isRunning = FALSE
    /\ loops = [l \in Loops |-> Idle]
    /\ nfts = {}
    /\ listings = {}
    /\ transactions = <<>>
    /\ chain = <<>>
    /\ now = 0
    /\ console = {}
    /\ lastBuyer = [x \in {"X"} |-> NULL]

ContractNext ==
    \/ \E sender \in Addresses, id \in ObjectIds :
          marketplace_mint_nft(sender, id) /\ UNCHANGED OffLedger
    \/ \E sender \in Addresses, id \in ObjectIds, price \in Prices :
          marketplace_list_nft(sender, id, price) /\ UNCHANGED OffLedger
    \/ \E sender \in Addresses, id \in ObjectIds, payment \in Payments :
          marketplace_buy_nft(sender, id, payment) /\ UNCHANGED OffLedger
    \/ \E sender \in Addresses, id \in ObjectIds :
          marketplace_delist_nft(sender, id) /\ UNCHANGED OffLedger
    \/ \E sender \in Addresses, id \in ObjectIds, new_owner \in Addresses :
          marketplace_update_nft_owner(sender, id, new_owner) /\ UNCHANGED OffLedger

ContractSpec == ContractInit /\ [][ContractNext]_vars

\* C21: after a successful buy_nft for a listed NFT, the NFT's owner is the
\* buyer's address (its owner field, or the address holding the object).
C21_BuyerOwnsAfterPurchase ==
    [][\A sender \in Addresses, id \in ObjectIds, payment \in Payments :
          (marketplace_buy_nft(sender, id, payment) /\ ledger'.status = Success)
              => \/ ledger'.objects[id].owner = sender
                 \/ ledger'.objects[id].holder = sender]_vars

PurchasedOnChain(id) ==
    \E j \in 1..Len(chain) :
        LastSegment(chain[j].type) = "NFTPurchased" /\ chain[j].parsedJson.nft_id = id

\* C22: buy_nft for an id with no listing aborts with ENotListed, buy_nft
\* with a payment below the price aborts with EInsufficientPayment, both
\* leaving the listings table as it was; a successful buy_nft removes the
\* listing, and a later buy_nft for the same id aborts with ENotListed.
C22_BuyAborts ==
    [][\A sender \in Addresses, id \in ObjectIds, payment \in Payments :
          marketplace_buy_nft(sender, id, payment) =>
              /\ ~contains(ledger.listings, id)
                    => ledger'.status = ENotListed /\ ledger'.listings = ledger.listings
              /\ (contains(ledger.listings, id) /\ payment < ledger.listings[id].price)
                    => /\ ledger'.status = EInsufficientPayment
                       /\ ledger'.listings = ledger.listings
                       /\ contains(ledger'.listings, id)
              /\ (contains(ledger.listings, id) /\ payment >= ledger.listings[id].price)
                    => ledger'.status = Success /\ ~contains(ledger'.listings, id)
              /\ PurchasedOnChain(id) => ledger'.status = ENotListed]_vars

\* X was bought and a later buy_nft for X has aborted with ENotListed; Y is
\* still listed
C22_Witness ==
    /\ PurchasedOnChain("X")
    /\ ledger.status = ENotListed
    /\ contains(ledger.listings, "Y")
    /\ ~contains(ledger.listings, "X")

\* C23: for every event of a known kind that the indexer projects, a
\* Transaction record with the event's transaction identifier exists in the
\* store immediately after the event has been processed.
C23_TransactionRecorded ==
    [][\A l \in Loops :
          (Projected(l) /\ LastSegment(Current(l).type) \in KnownKinds) =>
              Current(l).txDigest \in Digests(transactions')]_vars

Store == <<nfts, listings, transactions>>

\* C25: when the fetch of one of the four kinds fails, the cycle is aborted:
\* no event of the cycle is projected, the kinds already fetched included,
\* the store is unchanged, and no fetch is made again before the next cycle.
C25_FetchFailureAbortsCycle ==
    [][\A l \in Loops :
          (loops[l].pc = "fetch" /\ loops'[l] # loops[l]) =>
              /\ Store' = Store
              /\ "Error indexing events" \in console' =>
                    /\ loops'[l].pc = "sleep"
                    /\ loops'[l].events = <<>>]_vars

\* the first cycle on a log that holds events has been aborted
C25_Witness ==
    \E l \in Loops :
        /\ console = {"Error indexing events"}
        /\ loops[l].pc = "sleep"
        /\ chain # <<>>
        /\ Store = <<{}, {}, <<>>>>

(* ------------------- projection onto a filled store -------------------- *)
StoreIds == {"X", "Y"}
\* per id: no row, an Entity only, or an Entity with its Listing
StoredRows == {<<"none">>, <<"nft">>} \cup
              {<<"listing", status>> : status \in {"active", "sold", "delisted"}}
ProjectedEvents == SourceEvents \cup {RelistedX}
ProjectedBatches == UNION {[1..n -> ProjectedEvents] : n \in 1..MaxProjected}

\* the poll loop about to process a batch on a store that earlier cycles filled
ProjectionInit ==
    /\ Constructed
    /\ isRunning = TRUE
    /\ \E b \in ProjectedBatches :
          loops = [l \in Loops |-> IF l = 1
                      THEN [pc |-> "process", k |-> 0, events |-> b, i |-> 1]
                      ELSE Idle]
    /\ \E c \in [StoreIds -> StoredRows] :
          /\ nfts = {NftRow(id) : id \in {i \in StoreIds : c[i][1] # "none"}}
          /\ listings = {ListingRow(id, c[id][2], 1) :
                            id \in {i \in StoreIds : c[i][1] = "listing"}}
    /\ transactions = <<>>
    /\ chain = <<>>
    /\ now = 0
    /\ console = {}
    /\ lastBuyer = [x \in {"X"} |-> NULL]

ProjectionSpec == ProjectionInit /\ [][BatchNext]_vars

HasEntity(id) == \E r \in nfts : r.id = id
HasListing(id) == \E r \in listings : r.nft_id = id

\* C26: a Purchased or Delisted event for an id that has no Listing row or
\* no Entity row creates no row in either table, changes no row of another
\* id, raises no error, and its Transaction record is in the store.
C26_ZeroRowUpdate ==
    [][\A l \in Loops :
          ( /\ Projected(l)
            /\ LastSegment(Current(l).type) \in {"NFTPurchased", "NFTDelisted"}
            /\ ~HasEntity(Current(l).parsedJson.nft_id)
                  \/ ~HasListing(Current(l).parsedJson.nft_id) ) =>
              /\ {r.id : r \in nfts'} = {r.id : r \in nfts}
              /\ {r.nft_id : r \in listings'} = {r.nft_id : r \in listings}
              /\ \A r \in nfts : r.id # Current(l).parsedJson.nft_id => r \in nfts'
              /\ \A r \in listings : r.nft_id # Current(l).parsedJson.nft_id => r \in listings'
              /\ console' \cap ErrorLines = {}
              /\ Current(l).txDigest \in Digests(transactions')]_vars

\* a Purchased event of X was processed on a store with no row of X, and the
\* rows of Y are as they were
C26_Witness ==
    /\ PurchasedX.txDigest \in Digests(transactions)
    /\ ~HasEntity("X")
    /\ ~HasListing("X")
    /\ NftRow("Y") \in nfts
    /\ ListingRow("Y", "active", 1) \in listings

\* C27: processing a Listed event for id X leaves exactly one Listing row
\* for X, with status active, the event's seller and price and listed-at =
\* the event's timestamp, whatever row X had before, and leaves the Listings
\* of other ids unchanged.
C27_ListedUpserts ==
    [][\A l \in Loops :
          (Projected(l) /\ LastSegment(Current(l).type) = "NFTListed") =>
              LET event == Current(l)
                  id == event.parsedJson.nft_id
                  rows == {r \in listings' : r.nft_id = id}
              IN  /\ Cardinality(rows) = 1
                  /\ \A r \in rows : /\ r.status = "active"
                                     /\ r.seller = event.parsedJson.seller
                                     /\ r.price = event.parsedJson.price
                                     /\ r.listed_at = event.timestampMs
                  /\ {r \in listings' : r.nft_id # id} = {r \in listings : r.nft_id # id}]_vars

\* C30: a Listed event for an id that has no Entity row is tolerated: the
\* Listing row is written with status active, no error is raised, and the
\* event's Transaction record is appended.
C30_ListedWithoutEntity ==
    [][\A l \in Loops :
          ( /\ Projected(l)
            /\ LastSegment(Current(l).type) = "NFTListed"
            /\ ~HasEntity(Current(l).parsedJson.nft_id) ) =>
              /\ \E r \in listings' : /\ r.nft_id = Current(l).parsedJson.nft_id
                                      /\ r.status = "active"
              /\ console' \cap ErrorLines = {}
              /\ Current(l).txDigest \in Digests(transactions')]_vars

\* C28: once an Entity row exists for an id, an Entity row for that id
\* exists in every later state and its creator never changes, under the
\* writes of the indexer and of the action handlers.
C28_EntityKeptCreatorFixed ==
    [][\A r \in nfts : \E kept \in nfts' : kept.id = r.id /\ kept.creator = r.creator]_vars

\* the Entity row of X after a purchase: another owner, the creator it had
C28_Witness ==
    \E r \in nfts : /\ r.id = "X"
                    /\ r.owner # r.creator
                    /\ PurchasedOnChain("X")

(* ------------------------ the order of projection ---------------------- *)
\* the poll loop entering its first cycle on a log of list, delist, relist
OrderInit ==
    /\ Constructed
    /\ isRunning = TRUE
    /\ loops = [l \in Loops |-> IF l = 1 THEN NewCycle ELSE Idle]
    /\ nfts = {}
    /\ listings = {}
    /\ transactions = <<>>
    /\ \E n \in 0..MaxOrderChain, h \in Histories : n <= Len(h) /\ chain = SubSeq(h, 1, n)
    /\ now = 0
    /\ console = {}
    /\ lastBuyer = [x \in {"X"} |-> NULL]

OrderSpec == OrderInit /\ [][BatchNext]_vars

Processing(l) == loops[l].pc \in {"process", "detail"}
Fetched == UNION {{getEvents(chain, kind)[j] : j \in 1..Len(getEvents(chain, kind))} :
                     kind \in KnownKinds}

\* C29: within one cycle the events of the four kinds are merged and
\* projected one at a time in ascending timestamp order: the writes of an
\* event, its entity-detail fetch and Transaction record included, are
\* complete before the next event's begin; an empty fetch causes no write.
C29_AscendingOneAtATime ==
    [][\A l \in Loops :
          /\ Processing(l)' =>
                /\ \A a, b \in 1..Len(loops'[l].events) :
                      a < b => loops'[l].events[a].timestampMs <= loops'[l].events[b].timestampMs
                /\ {loops'[l].events[j] : j \in 1..Len(loops'[l].events)} = Fetched
                /\ Len(loops'[l].events) = Cardinality(Fetched)
          /\ Processing(l) =>
                /\ Digests(transactions') \ Digests(transactions) \subseteq {Current(l).txDigest}
                /\ Store' # Store => Projected(l)
                /\ (Processing(l)' /\ loops'[l] # loops[l]) =>
                      /\ loops'[l].events = loops[l].events
                      /\ loops'[l].i \in {loops[l].i, loops[l].i + 1}
                      /\ loops'[l].i = loops[l].i =>
                            (loops[l].pc = "process" /\ loops'[l].pc = "detail")
          /\ loops[l].pc = "fetch" =>
                /\ Store' = Store
                /\ (Fetched = {} /\ loops'[l] # loops[l]) => ~Processing(l)']_vars

\* the delist (timestamp 3) has been projected before the relist (timestamp
\* 4), which was fetched before it with the events of kind Listed
C29_Witness ==
    \E l \in Loops :
        /\ loops[l].pc = "process"
        /\ loops[l].i = 4
        /\ loops[l].events[3] = DelistedX
        /\ loops[l].events[4] = RelistedX
        /\ DelistedX.txDigest \in Digests(transactions)
        /\ RelistedX.txDigest \notin Digests(transactions)

(* -------------------- events of one timestamp -------------------------- *)
\* events of X in transactions of one checkpoint, which gives them one timestamp
MintedT    == SuiEvent(MoveEventType("NFTMinted"), "t1", 2, "A",
                       Payload("X", "A", "Art", NULL, NULL, NULL))
ListedT    == SuiEvent(MoveEventType("NFTListed"), "t2", 2, "A",
                       Payload("X", NULL, NULL, "A", NULL, "100"))
PurchasedT == SuiEvent(MoveEventType("NFTPurchased"), "t3", 2, "B",
                       Payload("X", NULL, NULL, "A", "B", "100"))
DelistedT  == SuiEvent(MoveEventType("NFTDelisted"), "t4", 2, "A",
                       Payload("X", NULL, NULL, "A", NULL, NULL))
RelistedT  == SuiEvent(MoveEventType("NFTListed"), "t5", 2, "A",
                       Payload("X", NULL, NULL, "A", NULL, "200"))
TieEvents == {MintedT, ListedT, PurchasedT, DelistedT, RelistedT}

\* the remote logs considered: the events in any order, each at most once
TieChains == UNION {{c \in [1..n -> TieEvents] : \A a, b \in 1..n : c[a] = c[b] => a = b} :
                       n \in 0..MaxTie}

\* the poll loop entering its first cycle on such a log
TieInit ==
    /\ Constructed
    /\ isRunning = TRUE
    /\ loops = [l \in Loops |-> IF l = 1 THEN NewCycle ELSE Idle]
    /\ nfts = {}
    /\ listings = {}
    /\ transactions = <<>>
    /\ chain \in TieChains
    /\ now = 0
    /\ console = {}
    /\ lastBuyer = [x \in {"X"} |-> NULL]

TieSpec == TieInit /\ [][BatchNext]_vars

KindOrder(e) ==
    CASE LastSegment(e.type) = "NFTMinted" -> 1
      [] LastSegment(e.type) = "NFTListed" -> 2
      [] LastSegment(e.type) = "NFTPurchased" -> 3
      [] LastSegment(e.type) = "NFTDelisted" -> 4
PositionOnLedger(e) == CHOOSE j \in 1..Len(chain) : chain[j] = e

\* C31: events of one batch that carry the same timestamp are projected in
\* the kind order Minted, Listed, Purchased, Delisted, and in source order
\* within a kind, whatever their order on the ledger; so a Listed event for
\* an id is applied before a Purchased or Delisted event for that id of the
\* same timestamp.
C31_TiesInKindOrder ==
    [][\A l \in Loops :
          /\ Processing(l)' =>
                \A a, b \in 1..Len(loops'[l].events) :
                    LET ea == loops'[l].events[a]
                        eb == loops'[l].events[b]
                    IN  (a < b /\ ea.timestampMs = eb.timestampMs) =>
                            /\ KindOrder(ea) <= KindOrder(eb)
                            /\ KindOrder(ea) = KindOrder(eb)
                                  => PositionOnLedger(ea) < PositionOnLedger(eb)
          /\ ( /\ Projected(l)
               /\ LastSegment(Current(l).type) \in {"NFTPurchased", "NFTDelisted"} ) =>
                \A j \in 1..Len(loops[l].events) :
                    LET e == loops[l].events[j]
                    IN  ( /\ LastSegment(e.type) = "NFTListed"
                          /\ e.parsedJson.nft_id = Current(l).parsedJson.nft_id
                          /\ e.timestampMs = Current(l).timestampMs ) => j < loops[l].i]_vars

\* the purchase precedes the listing on the ledger, and the listing has been
\* projected before it
C31_Witness ==
    \E l \in Loops :
        /\ loops[l].pc = "process"
        /\ Current(l) = PurchasedT
        /\ \E j \in 1..(loops[l].i - 1) : loops[l].events[j] = ListedT
        /\ PositionOnLedger(PurchasedT) < PositionOnLedger(ListedT)

(* ----------------------- processing a batch again ---------------------- *)
\* the for loop of indexEvents over a fetched batch from its j-th event on,
\* the j-th getNFTObject settling as outcomes[j]: the tables at its end
RECURSIVE indexEvents(_, _, _, _, _)
indexEvents(db, events, outcomes, j, t) ==
    IF j > Len(events)
    THEN db
    ELSE indexEvents(processEvent(db, events[j], outcomes[j], t).db, events, outcomes, j + 1, t)

\* C32: processing the batch of a cycle again in a later cycle, with the same
\* entity-detail outcomes and no other writer in between, ends with the same
\* Entity, Listing and Transaction tables as the first processing, the
\* updated-at columns ignored.
C32_BatchConverges ==
    \A l \in Loops :
        (loops[l].pc = "process" /\ loops[l].i = 1) =>
            \A outcomes \in [1..Len(loops[l].events) -> DetailOutcomes] :
                \A t1 \in Times : \A t2 \in t1..MaxNow :
                    \A first \in {indexEvents(DB, loops[l].events, outcomes, 1, t1)} :
                        WithoutUpdatedAt(indexEvents(first, loops[l].events, outcomes, 1, t2))
                            = WithoutUpdatedAt(first)

\* a later cycle starts on a batch already processed: its mint and its
\* purchase are in the transactions table, the buyer owns the Entity and the
\* Listing is sold
C32_Witness ==
    \E l \in Loops :
        /\ loops[l].pc = "process"
        /\ loops[l].i = 1
        /\ \E a, b \in 1..Len(loops[l].events) :
              /\ loops[l].events[a] = MintedT
              /\ loops[l].events[b] = PurchasedT
        /\ \E c \in 1..Len(loops[l].events) : loops[l].events[c] = ListedT
        /\ {loops[l].events[j].txDigest : j \in 1..Len(loops[l].events)} \subseteq Digests(transactions)
        /\ \E n \in nfts : n.id = "X" /\ n.owner = "B"
        /\ \E r \in listings : r.nft_id = "X" /\ r.status = "sold"

(* -------------------- a purchase projected before its listing ---------- *)
ActiveListing(rows, id) == \E r \in rows : r.nft_id = id /\ r.status = "active"

\* C33: when a Purchased event for X has been processed before the Listed
\* event for X, the Listed event writes the Listing row of X with status
\* active and leaves the Entity rows alone, so the owner stays the buyer; an
\* active Listing row stays active until a Purchased or Delisted event for
\* its id is processed.
C33_ListedAfterPurchaseActive ==
    [][/\ \A l \in Loops :
             ( /\ Projected(l)
               /\ LastSegment(Current(l).type) = "NFTListed"
               /\ lastBuyer[Current(l).parsedJson.nft_id] # NULL
               /\ HasEntity(Current(l).parsedJson.nft_id) ) =>
                 /\ ActiveListing(listings', Current(l).parsedJson.nft_id)
                 /\ Cardinality({r \in listings' : r.nft_id = Current(l).parsedJson.nft_id}) = 1
                 /\ nfts' = nfts
       /\ \A id \in StoreIds :
             (ActiveListing(listings, id) /\ ~ActiveListing(listings', id)) =>
                 \E l \in Loops :
                     /\ Projected(l)
                     /\ LastSegment(Current(l).type) \in {"NFTPurchased", "NFTDelisted"}
                     /\ Current(l).parsedJson.nft_id = id]_vars

\* the purchase of X was recorded before its listing; the Listing of X is
\* active and the buyer owns the Entity
C33_Witness ==
    /\ ActiveListing(listings, "X")
    /\ lastBuyer["X"] = "B"
    /\ \E r \in nfts : r.id = "X" /\ r.owner = "B"
    /\ \E a, b \in 1..Len(transactions) :
          /\ a < b
          /\ transactions[a].tx_digest = PurchasedX.txDigest
          /\ transactions[b].tx_digest = ListedX.txDigest
          /\ transactions[b].event_type = "NFTListed"

====
